---- MODULE Spec2Model ----
(***************************************************************************)
(* LinkedInService (src/services/linkedin_service.py): the OAuth token     *)
(* lifecycle (exchange_code_for_token, _validate_token_and_user_id,        *)
(* _load_token, _save_token) and the publish pipeline (create_post).       *)
(*                                                                         *)
(* Every outbound HTTP call is two moments: the step that issues it        *)
(* (appending an entry to calls[p]) and the step that receives its reply   *)
(* and runs the code up to the next call or to the return.  The remote     *)
(* side is free: each reply is drawn from the replies the endpoint can     *)
(* give (network error, non-success status, malformed body, missing        *)
(* field, success).                                                        *)
(*                                                                         *)
(* DeepseekService (src/services/deepseek_service.py): generate_post with  *)
(* its collaborators (content analysis, image search, generation provider) *)
(* and _format_post on texts taken as sequences of tokens.  Spec follows   *)
(* the LinkedIn service, SpecGen the generation service, SpecConc two      *)
(* overlapping callers of the LinkedIn service, SpecOverlap two            *)
(* overlapping generate_post calls, SpecFormat _format_post as a function  *)
(* of its input text, SpecApp the handlers of src/app/main.py that wrap    *)
(* the two services, SpecLive the operations under fair call returns.      *)
(***************************************************************************)
EXTENDS Integers, Sequences, FiniteSets, TLC

\* ---------------------------------------------------------------- bounds
NumTokens == 2      \* distinct access tokens the token endpoint can hand out
NumUsers  == 2      \* distinct subject ids the identity endpoint can return
NumAssets == 2      \* distinct asset URNs the registration endpoint can return
MaxLen    == 3      \* longest text (in tokens) handed to _format_post on its own
NumNonces == 2      \* distinct values random.choices can give self.state
MaxPosts  == 2      \* content-creation requests followed (publish is not started beyond it)

\* ------------------------------------------------------ program constants
None       == 0     \* Python None / "" : every value the code tests with `not x`
HTTP_OK      == 200 \* status the token, userinfo, registerUpload and image GET must have
HTTP_CREATED == 201 \* status the upload PUT and the ugcPosts POST must have

Tokens == 1..NumTokens
Users  == 1..NumUsers
Assets == 1..NumAssets
Nonces == 1..NumNonces
Procs  == {1, 2}                       \* request handlers of the one service instance
Texts  == {"hello world"}              \* post texts
ImageSources == {"none", "path", "url"} \* image_url: absent, a local file path, an http URL

\* ----------------------------------------------------------------- replies
NoBody    == [form |-> "none"]
Malformed == [form |-> "malformed"]    \* response.json() raises
ErrorBody == [form |-> "json", message |-> "error"]
NetError  == [outcome |-> "neterr",  status |-> 0, body |-> NoBody]  \* requests raises
Pending   == [outcome |-> "pending", status |-> 0, body |-> NoBody]  \* not yet answered
Http(s, b) == [outcome |-> "http", status |-> s, body |-> b]

TokenReplies ==
    {NetError, Http(400, ErrorBody), Http(HTTP_OK, Malformed)}
    \cup {Http(HTTP_OK, [form |-> "json", access_token |-> t]) : t \in {None} \cup Tokens}

UserinfoReplies ==
    {NetError, Http(401, ErrorBody), Http(HTTP_OK, Malformed)}
    \cup {Http(HTTP_OK, [form |-> "json", sub |-> u]) : u \in {None} \cup Users}

\* asset / uploadUrl = None stands for a response without that key (KeyError)
RegisterReplies ==
    {NetError, Http(403, ErrorBody), Http(HTTP_OK, Malformed)}
    \cup {Http(HTTP_OK, [form |-> "json", asset |-> a, uploadUrl |-> u]) :
            a \in {None} \cup Assets, u \in {None, 1}}

FetchReplies  == {NetError, Http(404, NoBody), Http(HTTP_OK, [form |-> "bytes"])}

UploadReplies == {NetError, Http(400, ErrorBody), Http(HTTP_OK, NoBody), Http(HTTP_CREATED, NoBody)}

PostReplies ==
    {NetError, Http(403, ErrorBody), Http(HTTP_OK, ErrorBody),
     Http(HTTP_CREATED, [form |-> "json", id |-> 1])}

\* ------------------------------------------------------------------- state
VARIABLES
    access_token,   \* self.access_token
    user_id,        \* self.user_id
    file,           \* linkedin_token.json
    pc,             \* pc[p]: where handler p stands
    op,             \* op[p]: the operation handler p runs
    arg,            \* arg[p]: the operation's arguments
    calls,          \* calls[p]: the outbound calls of the current operation, in order
    ret,            \* ret[p]: what the operation handed to its caller
    log,            \* log[p]: the last logger.error record of the operation
    asset,          \* create_post local: asset
    upload_url,     \* create_post local: upload_url
    post_data,      \* create_post local: post_data
    snap,           \* snap[p]: file as it was when the operation started (history)
    before,         \* before[p]: the token state in memory when the operation started (history)
    state,          \* self.state, the nonce put into the authorization URL
    callback,       \* callback[p]: query parameters linkedin_callback received
    posted,         \* number of POST /ugcPosts requests sent so far (history)
    handler,        \* handler[p]: the request handler of src/app/main.py running for p
    last_content_url, \* DeepseekService.last_content_url (one per service instance)
    enthusiasm,     \* DeepseekService.personality.enthusiasm, in tenths
    prompt,         \* prompt[p]: generate_post local prompt
    image_url,      \* image_url[p]: generate_post local image_url
    post            \* post[p]: generate_post local post, the text handed to _format_post

genvars == <<last_content_url, enthusiasm, prompt, image_url, post>>

vars == <<access_token, user_id, file, pc, op, arg, calls, ret, log,
          asset, upload_url, post_data, snap, before, state, callback, posted,
          handler, genvars>>

\* ------------------------------------------------------------- token store
NoFile == [form |-> "absent"]
Garbage == [form |-> "garbage"]        \* truncated / partially written file

\* _save_token: json.dump of the two fields; what the file holds afterwards
TokenRecord(at, uid) == [form |-> "json", access_token |-> at, user_id |-> uid]

\* _save_token, with the outcome of the file write: any exception is logged and
\* swallowed.  "open_failed": open(..., "w") raised, the file is untouched;
\* "write_failed": the file was truncated by open and the dump did not complete.
SaveOutcomes == {"ok", "open_failed", "write_failed"}
SaveToken(outcome, old, at, uid) ==
    CASE outcome = "ok"           -> TokenRecord(at, uid)
      [] outcome = "open_failed"  -> old
      [] outcome = "write_failed" -> Garbage

\* mutant of SavedToken: the token the operation itself obtained is written
SavedToken_Own(held, own) == own

\* lines 71-74: the record is built from self.access_token as it is when
\* _save_token runs, not from a local of the operation that calls it
SavedToken(held, own) == held

\* _load_token on a new instance (access_token = user_id = None before it)
LoadToken(f) ==
    CASE f.form = "absent"  -> [access_token |-> None, user_id |-> None]
      [] f.form = "json"    -> [access_token |-> f.access_token, user_id |-> f.user_id]
      [] f.form = "garbage" -> [access_token |-> None, user_id |-> None]

\* ----------------------------------------------------------------- helpers
Call(kind, bearer, data) == [kind |-> kind, bearer |-> bearer, data |-> data, reply |-> Pending]
IsPost(c) == c.kind = "post"
NoData == [form |-> "none"]

\* _get_headers: the bearer of the Authorization header is self.access_token
GetHeaders(at) == at

\* the current operation's calls with the reply of the last one filled in
Replied(p, reply) == [calls[p] EXCEPT ![Len(calls[p])].reply = reply]

NoRet == [kind |-> "none", value |-> "None", msg |-> "", status |-> 0, body |-> NoBody]
\* `return v`: a bool carries nothing else
Return(v) == [kind |-> "return", value |-> v, msg |-> "", status |-> 0, body |-> NoBody]
\* `raise Exception(f"...: {status}")`
Raise(m, s) == [kind |-> "raise", value |-> "None", msg |-> m, status |-> s, body |-> NoBody]

NoLog == [msg |-> "", status |-> 0, body |-> NoBody]
Log(m) == [msg |-> m, status |-> 0, body |-> NoBody]
LogReply(m, reply) == [msg |-> m, status |-> reply.status, body |-> reply.body]

\* self.access_token and self.user_id, as one value
Held(at, uid) == [access_token |-> at, user_id |-> uid]
NoHeld == Held(None, None)

\* src/app/main.py: what a request handler holds while it runs, and its response
NoHandler == [name |-> "none", stage |-> "none", request |-> NoData,
              authenticated |-> "unknown",
              status |-> 0, detail |-> "", post |-> <<"<None>">>, image_url |-> <<"<None>">>]

\* create_post has built no payload yet
NoUrn == [ns |-> "", id |-> None]
NoPost == [author |-> NoUrn, text |-> "", shareMediaCategory |-> "NONE", media |-> None]

Quiet == \A q \in Procs : pc[q] = "idle"


\* what every operation resets when it starts
Begin(p, o, a) ==
    /\ pc[p] = "idle"
    /\ op' = [op EXCEPT ![p] = o]
    /\ arg' = [arg EXCEPT ![p] = a]
    /\ asset' = [asset EXCEPT ![p] = None]
    /\ upload_url' = [upload_url EXCEPT ![p] = None]
    /\ post_data' = [post_data EXCEPT ![p] = NoPost]
    /\ snap' = [snap EXCEPT ![p] = file]
    /\ before' = [before EXCEPT ![p] = Held(access_token, user_id)]
    /\ UNCHANGED <<state, posted, genvars>>

NoArg == [code |-> "", content |-> "", image |-> "none"]

\* the operation returns (or raises) to its caller
Finish(p, r, lg) ==
    /\ pc' = [pc EXCEPT ![p] = "done"]
    /\ ret' = [ret EXCEPT ![p] = r]
    /\ log' = [log EXCEPT ![p] = lg]

\* the operation goes on to its next outbound call
Goto(p, label) ==
    /\ pc' = [pc EXCEPT ![p] = label]
    /\ UNCHANGED <<ret, log>>

\* ------------------------------------------------- exchange_code_for_token
\* mutant of ExchangeOnToken: the `if not self.access_token` test is left out
ExchangeOnToken_NoTokenCheck(at, reply) ==
    IF reply.outcome # "http"
    THEN [ok |-> FALSE, access_token |-> at, msg |-> "request failed", status |-> 0]
    ELSE IF reply.status # HTTP_OK
    THEN [ok |-> FALSE, access_token |-> at,
          msg |-> "Failed to exchange code for token", status |-> reply.status]
    ELSE IF reply.body.form # "json"
    THEN [ok |-> FALSE, access_token |-> at, msg |-> "invalid JSON", status |-> 0]
    ELSE [ok |-> TRUE, access_token |-> reply.body.access_token, msg |-> "", status |-> 0]

\* lines 168-180: the token endpoint's reply; self.access_token is assigned
\* before it is tested
ExchangeOnToken(at, reply) ==
    IF reply.outcome # "http"
    THEN [ok |-> FALSE, access_token |-> at, msg |-> "request failed", status |-> 0]
    ELSE IF reply.status # HTTP_OK
    THEN [ok |-> FALSE, access_token |-> at,
          msg |-> "Failed to exchange code for token", status |-> reply.status]
    ELSE IF reply.body.form # "json"
    THEN [ok |-> FALSE, access_token |-> at, msg |-> "invalid JSON", status |-> 0]
    ELSE IF reply.body.access_token = None
    THEN [ok |-> FALSE, access_token |-> None,
          msg |-> "No access token in response", status |-> 0]
    ELSE [ok |-> TRUE, access_token |-> reply.body.access_token, msg |-> "", status |-> 0]

\* mutant of ExchangeOnUserinfo: the `if not self.user_id` test is left out
ExchangeOnUserinfo_NoSubCheck(uid, reply) ==
    IF reply.outcome # "http"
    THEN [ok |-> FALSE, user_id |-> uid, msg |-> "request failed", status |-> 0]
    ELSE IF reply.status # HTTP_OK
    THEN [ok |-> FALSE, user_id |-> uid,
          msg |-> "Failed to get user info", status |-> reply.status]
    ELSE IF reply.body.form # "json"
    THEN [ok |-> FALSE, user_id |-> uid, msg |-> "invalid JSON", status |-> 0]
    ELSE [ok |-> TRUE, user_id |-> reply.body.sub, msg |-> "", status |-> 0]

\* lines 189-201: the identity endpoint's reply; self.user_id is assigned
\* before it is tested
ExchangeOnUserinfo(uid, reply) ==
    IF reply.outcome # "http"
    THEN [ok |-> FALSE, user_id |-> uid, msg |-> "request failed", status |-> 0]
    ELSE IF reply.status # HTTP_OK
    THEN [ok |-> FALSE, user_id |-> uid,
          msg |-> "Failed to get user info", status |-> reply.status]
    ELSE IF reply.body.form # "json"
    THEN [ok |-> FALSE, user_id |-> uid, msg |-> "invalid JSON", status |-> 0]
    ELSE IF reply.body.sub = None
    THEN [ok |-> FALSE, user_id |-> None,
          msg |-> "No user ID in userinfo response", status |-> 0]
    ELSE [ok |-> TRUE, user_id |-> reply.body.sub, msg |-> "", status |-> 0]

\* lines 152-166: POST to the token endpoint (form data, no bearer)
StartExchange(p, code) ==
    /\ Begin(p, "exchange", [NoArg EXCEPT !.code = code])
    /\ calls' = [calls EXCEPT ![p] = <<Call("token", None, [form |-> "form", code |-> code])>>]
    /\ pc' = [pc EXCEPT ![p] = "ex_token"]
    /\ ret' = [ret EXCEPT ![p] = NoRet]
    /\ log' = [log EXCEPT ![p] = NoLog]
    /\ UNCHANGED <<access_token, user_id, file>>

\* lines 168-187 and 208-211
ExTokenReturn(p) ==
    /\ pc[p] = "ex_token"
    /\ \E reply \in TokenReplies :
         LET r == ExchangeOnToken(access_token, reply) IN
         /\ access_token' = r.access_token
         /\ IF r.ok
            THEN /\ calls' = [calls EXCEPT ![p] =
                        Append(Replied(p, reply),
                               Call("userinfo", GetHeaders(r.access_token), NoData))]
                 /\ Goto(p, "ex_userinfo")
            ELSE /\ calls' = [calls EXCEPT ![p] = Replied(p, reply)]
                 /\ Finish(p, Raise(r.msg, r.status), Log(r.msg))
    /\ UNCHANGED <<user_id, file, op, arg, asset, upload_url, post_data, snap, before, handler,
                 state, callback, posted, genvars>>

\* lines 189-211: the only call of _save_token
ExUserinfoReturn(p) ==
    /\ pc[p] = "ex_userinfo"
    /\ \E reply \in UserinfoReplies :
         LET r == ExchangeOnUserinfo(user_id, reply) IN
         /\ user_id' = r.user_id
         /\ calls' = [calls EXCEPT ![p] = Replied(p, reply)]
         /\ IF r.ok
            THEN \E outcome \in SaveOutcomes :
                 /\ file' = SaveToken(outcome, file,
                                      SavedToken(access_token,
                                                 calls[p][1].reply.body.access_token),
                                      r.user_id)
                 /\ Finish(p, Return("True"),
                           IF outcome = "ok" THEN NoLog ELSE Log("Error saving token"))
            ELSE /\ file' = file
                 /\ Finish(p, Raise(r.msg, r.status), Log(r.msg))
    /\ UNCHANGED <<access_token, op, arg, asset, upload_url, post_data, snap, before, handler,
                 state, callback, posted, genvars>>

\* ---------------------------------------------- _validate_token_and_user_id
\* line 84
HasToken(at) == at # None

\* mutant of ValidateReply: the `if not self.user_id` test is left out
ValidateReply_NoSubCheck(uid, reply) ==
    IF reply.outcome # "http"
    THEN [ok |-> FALSE, user_id |-> uid, msg |-> "Error validating token"]
    ELSE IF reply.status # HTTP_OK
    THEN [ok |-> FALSE, user_id |-> uid, msg |-> "Token validation failed"]
    ELSE IF reply.body.form # "json"
    THEN [ok |-> FALSE, user_id |-> uid, msg |-> "Error validating token"]
    ELSE [ok |-> TRUE, user_id |-> reply.body.sub, msg |-> ""]

\* mutant of ValidateReply: line 102 is left out, self.user_id keeps its value
ValidateReply_KeepUid(uid, reply) ==
    IF reply.outcome # "http"
    THEN [ok |-> FALSE, user_id |-> uid, msg |-> "Error validating token"]
    ELSE IF reply.status # HTTP_OK
    THEN [ok |-> FALSE, user_id |-> uid, msg |-> "Token validation failed"]
    ELSE IF reply.body.form # "json"
    THEN [ok |-> FALSE, user_id |-> uid, msg |-> "Error validating token"]
    ELSE IF reply.body.sub = None
    THEN [ok |-> FALSE, user_id |-> uid, msg |-> "No user ID found in userinfo response"]
    ELSE [ok |-> TRUE, user_id |-> uid, msg |-> ""]

\* lines 95-113: the identity endpoint's reply; every exception is caught
ValidateReply(uid, reply) ==
    IF reply.outcome # "http"
    THEN [ok |-> FALSE, user_id |-> uid, msg |-> "Error validating token"]
    ELSE IF reply.status # HTTP_OK
    THEN [ok |-> FALSE, user_id |-> uid, msg |-> "Token validation failed"]
    ELSE IF reply.body.form # "json"
    THEN [ok |-> FALSE, user_id |-> uid, msg |-> "Error validating token"]
    ELSE IF reply.body.sub = None
    THEN [ok |-> FALSE, user_id |-> None, msg |-> "No user ID found in userinfo response"]
    ELSE [ok |-> TRUE, user_id |-> reply.body.sub, msg |-> ""]

\* mutant of FileAfterValidate: a successful validation calls _save_token
FileAfterValidate_Persist(f, at, v) == IF v.ok THEN TokenRecord(at, v.user_id) ELSE f

\* lines 100-109: a successful validation assigns self.user_id and returns;
\* _save_token is not called, the file stays as it is
FileAfterValidate(f, at, v) == f

\* lines 83-93
StartValidate(p) ==
    /\ Begin(p, "validate", NoArg)
    /\ IF HasToken(access_token)
       THEN /\ calls' = [calls EXCEPT ![p] =
                   <<Call("userinfo", GetHeaders(access_token), NoData)>>]
            /\ pc' = [pc EXCEPT ![p] = "val_userinfo"]
            /\ ret' = [ret EXCEPT ![p] = NoRet]
            /\ log' = [log EXCEPT ![p] = NoLog]
       ELSE /\ calls' = [calls EXCEPT ![p] = <<>>]
            /\ Finish(p, Return("False"), Log("No access token available"))
    /\ UNCHANGED <<access_token, user_id, file>>

\* lines 95-113
ValUserinfoReturn(p) ==
    /\ pc[p] = "val_userinfo"
    /\ \E reply \in UserinfoReplies :
         LET v == ValidateReply(user_id, reply) IN
         /\ user_id' = v.user_id
         /\ calls' = [calls EXCEPT ![p] = Replied(p, reply)]
         /\ file' = FileAfterValidate(file, access_token, v)
         /\ Finish(p, Return(IF v.ok THEN "True" ELSE "False"),
                   IF v.ok THEN NoLog ELSE Log(v.msg))
    /\ UNCHANGED <<access_token, op, arg, asset, upload_url, post_data, snap, before, handler,
                 state, callback, posted, genvars>>

\* ------------------------------------------------------------ __init__
\* lines 44-50: a new service instance (a restart of the server process)
NewInstance ==
    /\ Quiet
    /\ access_token' = LoadToken(file).access_token
    /\ user_id' = LoadToken(file).user_id
    /\ state' \in Nonces
    /\ UNCHANGED <<file, pc, op, arg, calls, ret, log, asset, upload_url, post_data,
                 snap, before, handler,
                 callback, posted, genvars>>


\* ------------------------------------------------------------ get_auth_url
ClientId == "client-id"                     \* LINKEDIN_CLIENT_ID
RedirectUri == <<"http", ":", "//localhost", ":", "8000/api/auth/callback">>
Scopes == <<"openid", "profile", "email", "w_member_social">>

\* urllib.parse.quote with its default safe="/": the colon is escaped
quote(u) == [i \in DOMAIN u |-> IF u[i] = ":" THEN "%3A" ELSE u[i]]

\* mutant of get_auth_url: the state parameter is left out of the URL
get_auth_url_NoState(st) ==
    [form |-> "url", base |-> "https://www.linkedin.com/oauth/v2/authorization",
     response_type |-> "code", client_id |-> ClientId,
     redirect_uri |-> quote(RedirectUri), scope |-> Scopes, state |-> None]

\* lines 122-148: the URL is put together from fields set in __init__
get_auth_url(st) ==
    [form |-> "url", base |-> "https://www.linkedin.com/oauth/v2/authorization",
     response_type |-> "code", client_id |-> ClientId,
     redirect_uri |-> quote(RedirectUri), scope |-> Scopes, state |-> st]

\* src/app/main.py lines 162-168: no outbound call, the URL is returned at once
GetAuthUrl(p) ==
    /\ Begin(p, "auth_url", NoArg)
    /\ calls' = [calls EXCEPT ![p] = <<>>]
    /\ Finish(p, [Return("url") EXCEPT !.body = get_auth_url(state)], NoLog)
    /\ UNCHANGED <<access_token, user_id, file>>

\* ------------------------------------------------------------- create_post
\* line 120: "urn:li:person:" + user id
UserUrn(uid) == [ns |-> "urn:li:person", id |-> uid]

\* lines 225-239: the payload without media
PostData(uid, content) ==
    [author |-> UserUrn(uid), text |-> content, shareMediaCategory |-> "NONE", media |-> None]

\* lines 286-296: the media block added to the payload
WithImage(pd, a) == [pd EXCEPT !.shareMediaCategory = "IMAGE", !.media = a]

\* line 242: `if image_url:`
HasImage(image) == image # "none"

\* mutant of RegisterOnReply: uploadUrl is read with .get(), a missing key goes unnoticed
RegisterOnReply_NoUrlCheck(reply) ==
    IF reply.outcome # "http"
    THEN [ok |-> FALSE, asset |-> None, upload_url |-> None, msg |-> "request failed"]
    ELSE IF reply.status # HTTP_OK
    THEN [ok |-> FALSE, asset |-> None, upload_url |-> None,
          msg |-> "Failed to get asset or upload URL from LinkedIn"]
    ELSE IF reply.body.form # "json"
    THEN [ok |-> FALSE, asset |-> None, upload_url |-> None, msg |-> "invalid JSON"]
    ELSE IF reply.body.asset = None
    THEN [ok |-> FALSE, asset |-> None, upload_url |-> None, msg |-> "KeyError"]
    ELSE [ok |-> TRUE, asset |-> reply.body.asset, upload_url |-> reply.body.uploadUrl,
          msg |-> ""]

\* lines 260-266: the registration reply; a missing key raises KeyError
RegisterOnReply(reply) ==
    IF reply.outcome # "http"
    THEN [ok |-> FALSE, asset |-> None, upload_url |-> None, msg |-> "request failed"]
    ELSE IF reply.status # HTTP_OK
    THEN [ok |-> FALSE, asset |-> None, upload_url |-> None,
          msg |-> "Failed to get asset or upload URL from LinkedIn"]
    ELSE IF reply.body.form # "json"
    THEN [ok |-> FALSE, asset |-> None, upload_url |-> None, msg |-> "invalid JSON"]
    ELSE IF reply.body.asset = None \/ reply.body.uploadUrl = None
    THEN [ok |-> FALSE, asset |-> None, upload_url |-> None, msg |-> "KeyError"]
    ELSE [ok |-> TRUE, asset |-> reply.body.asset, upload_url |-> reply.body.uploadUrl,
          msg |-> ""]

\* line 269: requests.get(image_url) sends a request only for a URL; for a bare
\* file path it raises MissingSchema before anything is sent
CanFetch(image) == image = "url"

\* mutant of FetchOK: the status of the image download is not tested
FetchOK_AnyReply(reply) == reply.outcome = "http"

\* line 270
FetchOK(reply) == reply.outcome = "http" /\ reply.status = HTTP_OK

\* line 277: the headers of the upload PUT are {"Content-Type": "image/jpeg"} only
UploadHeaders(at) == None

\* mutant of UploadOK: 200 is taken for success as well as 201
UploadOK_AnySuccess(reply) == reply.outcome = "http" /\ reply.status \in {HTTP_OK, HTTP_CREATED}

\* mutant of UploadOK: the upload is taken to answer 200 like the other calls
UploadOK_Expect200(reply) == reply.outcome = "http" /\ reply.status = HTTP_OK

\* line 280
UploadOK(reply) == reply.outcome = "http" /\ reply.status = HTTP_CREATED

\* line 306
PostOK(reply) == reply.outcome = "http" /\ reply.status = HTTP_CREATED

\* the content-creation request, lines 300-304
PostCall(at, pd) == Call("post", GetHeaders(at), pd)

\* lines 215-218, 81-93: validation is the first thing create_post does
StartPublish(p, content, image) ==
    /\ posted < MaxPosts
    /\ Begin(p, "publish", [NoArg EXCEPT !.content = content, !.image = image])
    /\ IF HasToken(access_token)
       THEN /\ calls' = [calls EXCEPT ![p] =
                   <<Call("userinfo", GetHeaders(access_token), NoData)>>]
            /\ pc' = [pc EXCEPT ![p] = "pub_probe"]
            /\ ret' = [ret EXCEPT ![p] = NoRet]
            /\ log' = [log EXCEPT ![p] = NoLog]
       ELSE /\ calls' = [calls EXCEPT ![p] = <<>>]
            /\ Finish(p, Return("False"), Log("Not authenticated with LinkedIn"))
    /\ UNCHANGED <<access_token, user_id, file>>

\* lines 95-113, then 217-258 (with an image) or 217-239 and 298-304 (without)
PubProbeReturn(p) ==
    /\ pc[p] = "pub_probe"
    /\ \E reply \in UserinfoReplies :
         LET v  == ValidateReply(user_id, reply)
             pd == PostData(v.user_id, arg[p].content)
         IN
         /\ user_id' = v.user_id
         /\ file' = FileAfterValidate(file, access_token, v)
         /\ IF ~v.ok
            THEN /\ calls' = [calls EXCEPT ![p] = Replied(p, reply)]
                 /\ Finish(p, Return("False"), Log("Not authenticated with LinkedIn"))
                 /\ UNCHANGED post_data
            ELSE /\ post_data' = [post_data EXCEPT ![p] = pd]
                 /\ calls' = [calls EXCEPT ![p] =
                        Append(Replied(p, reply),
                               IF HasImage(arg[p].image)
                               THEN Call("register", GetHeaders(access_token),
                                         [form |-> "json", owner |-> UserUrn(v.user_id)])
                               ELSE PostCall(access_token, pd))]
                 /\ Goto(p, IF HasImage(arg[p].image) THEN "pub_register" ELSE "pub_post")
    /\ posted' = posted + Len(SelectSeq(calls'[p], IsPost)) - Len(SelectSeq(calls[p], IsPost))
    /\ UNCHANGED <<access_token, op, arg, asset, upload_url, snap, before, handler,
                 state, callback, genvars>>

\* lines 260-269
PubRegisterReturn(p) ==
    /\ pc[p] = "pub_register"
    /\ \E reply \in RegisterReplies :
         LET r == RegisterOnReply(reply) IN
         /\ asset' = [asset EXCEPT ![p] = r.asset]
         /\ upload_url' = [upload_url EXCEPT ![p] = r.upload_url]
         /\ IF r.ok /\ CanFetch(arg[p].image)
            THEN /\ calls' = [calls EXCEPT ![p] =
                        Append(Replied(p, reply), Call("fetch", None, NoData))]
                 /\ Goto(p, "pub_fetch")
            ELSE /\ calls' = [calls EXCEPT ![p] = Replied(p, reply)]
                 /\ Finish(p, Return("False"),
                           Log(IF r.ok THEN "Failed to create LinkedIn post" ELSE r.msg))
    /\ UNCHANGED <<access_token, user_id, file, op, arg, post_data, snap, before, handler,
                 state, callback, posted, genvars>>

\* lines 270-278
PubFetchReturn(p) ==
    /\ pc[p] = "pub_fetch"
    /\ \E reply \in FetchReplies :
         IF FetchOK(reply)
         THEN /\ calls' = [calls EXCEPT ![p] =
                     Append(Replied(p, reply),
                            Call("upload", UploadHeaders(access_token),
                                 [form |-> "bytes", url |-> upload_url[p]]))]
              /\ Goto(p, "pub_upload")
         ELSE /\ calls' = [calls EXCEPT ![p] = Replied(p, reply)]
              /\ Finish(p, Return("False"), Log("Failed to download image"))
    /\ UNCHANGED <<access_token, user_id, file, op, arg, asset, upload_url, post_data,
                 snap, before, handler,
                 state, callback, posted, genvars>>

\* lines 280-304
PubUploadReturn(p) ==
    /\ pc[p] = "pub_upload"
    /\ \E reply \in UploadReplies :
         IF UploadOK(reply)
         THEN /\ post_data' = [post_data EXCEPT ![p] = WithImage(@, asset[p])]
              /\ calls' = [calls EXCEPT ![p] =
                     Append(Replied(p, reply),
                            PostCall(access_token, WithImage(post_data[p], asset[p])))]
              /\ Goto(p, "pub_post")
         ELSE /\ calls' = [calls EXCEPT ![p] = Replied(p, reply)]
              /\ Finish(p, Return("False"), Log("Failed to upload image to LinkedIn"))
              /\ UNCHANGED post_data
    /\ posted' = posted + Len(SelectSeq(calls'[p], IsPost)) - Len(SelectSeq(calls[p], IsPost))
    /\ UNCHANGED <<access_token, user_id, file, op, arg, asset, upload_url, snap, before, handler,
                 state, callback, genvars>>

\* lines 306-316: the status and the body of a refused post go to the log only
PubPostReturn(p) ==
    /\ pc[p] = "pub_post"
    /\ \E reply \in PostReplies :
         /\ calls' = [calls EXCEPT ![p] = Replied(p, reply)]
         /\ IF PostOK(reply)
            THEN Finish(p, Return("True"), NoLog)
            ELSE Finish(p, Return("False"),
                        IF reply.outcome = "http"
                        THEN LogReply("LinkedIn POST /ugcPosts", reply)
                        ELSE Log("Failed to create LinkedIn post"))
    /\ UNCHANGED <<access_token, user_id, file, op, arg, asset, upload_url, post_data,
                 snap, before, handler,
                 state, callback, posted, genvars>>

\* ================================================ DeepseekService (generation)
\* src/services/deepseek_service.py.  A text is a sequence of tokens: a word or
\* phrase, a punctuation mark, an emoji, one "*" character, a whitespace run.
\* Substring tests of the code become tests on tokens.
NoneT == <<"<None>">>            \* Python None where a str is expected
Truthy(t) == t # NoneT /\ t # <<>>          \* `if t` / `t or ...`
Str(t) == IF t = NoneT THEN <<"None">> ELSE t     \* f"{t}"
Or(t, d) == IF Truthy(t) THEN t ELSE d             \* `t or d`

\* the keywords (lower case) that tok.lower() contains
Lower(tok) ==
    CASE tok = "AI"         -> {"ai"}
      [] tok = "Meta"       -> {"meta"}
      [] tok = "technology" -> {"tech", "technology"}
      [] OTHER              -> {tok}

Has(t, tok) == \E i \in DOMAIN t : t[i] = tok                   \* `tok in t`
HasLower(t, kw) == \E i \in DOMAIN t : kw \in Lower(t[i])       \* `kw in t.lower()`
HasBold(t) == \E i \in 1..(Len(t) - 1) : t[i] = "*" /\ t[i+1] = "*"  \* `"**" in t`

RECURSIVE StripBold(_)
\* t.replace("**", ""): left to right, matches do not overlap
StripBold(t) ==
    IF Len(t) < 2 THEN t
    ELSE IF t[1] = "*" /\ t[2] = "*" THEN StripBold(SubSeq(t, 3, Len(t)))
    ELSE <<t[1]>> \o StripBold(Tail(t))

RECURSIVE Replace(_, _, _)
\* t.replace(tok, by) for a one-token pattern
Replace(t, tok, by) ==
    IF t = <<>> THEN <<>>
    ELSE (IF t[1] = tok THEN by ELSE <<t[1]>>) \o Replace(Tail(t), tok, by)

IsSpace(tok) == tok \in {" ", "\n\n"}
RECURSIVE LStrip(_)
LStrip(t) == IF t # <<>> /\ IsSpace(t[1]) THEN LStrip(Tail(t)) ELSE t
RECURSIVE RStrip(_)
RStrip(t) == IF t # <<>> /\ IsSpace(t[Len(t)]) THEN RStrip(SubSeq(t, 1, Len(t) - 1)) ELSE t
Strip(t) == RStrip(LStrip(t))                                   \* t.strip()

\* personality.enthusiasm in tenths
DefaultEnthusiasm == 8
HighEnthusiasm    == 7
MidEnthusiasm     == 4
Enthusiasms == {MidEnthusiasm, HighEnthusiasm, DefaultEnthusiasm}

\* mutant of Emoji: the tech test comes before the AI test
Emoji_TechFirst(t) ==
    IF HasLower(t, "tech") \/ HasLower(t, "technology") THEN <<":computer:", " ">>
    ELSE IF Has(t, "AI") \/ HasLower(t, "artificial intelligence") THEN <<":robot:", " ">>
    ELSE IF HasLower(t, "innovation") THEN <<":bulb:", " ">>
    ELSE IF HasLower(t, "data") THEN <<":chart:", " ">>
    ELSE IF HasLower(t, "research") THEN <<":microscope:", " ">>
    ELSE IF HasLower(t, "open source") THEN <<":globe:", " ">>
    ELSE IF HasLower(t, "student") \/ HasLower(t, "education") THEN <<":cap:", " ">>
    ELSE <<>>

\* lines 344-358: the first matching keyword decides the prefix
Emoji(t) ==
    IF Has(t, "AI") \/ HasLower(t, "artificial intelligence") THEN <<":robot:", " ">>
    ELSE IF HasLower(t, "tech") \/ HasLower(t, "technology") THEN <<":computer:", " ">>
    ELSE IF HasLower(t, "innovation") THEN <<":bulb:", " ">>
    ELSE IF HasLower(t, "data") THEN <<":chart:", " ">>
    ELSE IF HasLower(t, "research") THEN <<":microscope:", " ">>
    ELSE IF HasLower(t, "open source") THEN <<":globe:", " ">>
    ELSE IF HasLower(t, "student") \/ HasLower(t, "education") THEN <<":cap:", " ">>
    ELSE <<>>

WithEmoji(t) ==
    LET u == Emoji(t) \o t IN
    IF (Has(t, "AI") \/ HasLower(t, "artificial intelligence")) /\ HasLower(u, "learning")
    THEN Replace(u, "learning", <<"learning", " ", ":brain:">>)
    ELSE u

\* mutant of WithEngagement: the thresholds are taken inclusive
WithEngagement_Inclusive(t, e) ==
    IF e >= HighEnthusiasm
    THEN Replace(Replace(t, ".", <<"!", " ", ":sparkles:">>), "?", <<"?", " ", ":thinking:">>)
    ELSE IF e >= MidEnthusiasm
    THEN Replace(Replace(t, ".", <<"!", " ", ":clap:">>), "?", <<"?", " ", ":thought:">>)
    ELSE t

\* lines 360-366
WithEngagement(t, e) ==
    IF e > HighEnthusiasm
    THEN Replace(Replace(t, ".", <<"!", " ", ":sparkles:">>), "?", <<"?", " ", ":thinking:">>)
    ELSE IF e > MidEnthusiasm
    THEN Replace(Replace(t, ".", <<"!", " ", ":clap:">>), "?", <<"?", " ", ":thought:">>)
    ELSE t

\* lines 368-374
WithTopic(t) ==
    LET a == IF HasLower(t, "meta") \/ HasLower(t, "facebook")
             THEN Replace(t, "Meta", <<"Meta", " ", ":rocket:">>) ELSE t
        b == IF HasLower(a, "model") THEN Replace(a, "model", <<"model", " ", ":robot:">>) ELSE a
    IN IF HasLower(b, "release") THEN Replace(b, "release", <<"release", " ", ":tada:">>) ELSE b

\* mutant of HasMarker: only "Link:" counts as a reference
HasMarker_LinkOnly(t) == Has(t, "Link:")

\* line 378
HasMarker(t) == Has(t, "Read more:") \/ Has(t, "Check it out:") \/ Has(t, "Link:")

\* lines 376-381: last_content_url is always an attribute by then (lines 64, 78)
WithReference(t, url) ==
    IF ~HasMarker(t) THEN t \o <<"\n\n", "Read more:", " ">> \o Str(url) ELSE t

\* lines 338-383
format_post(t, e, url) ==
    Strip(WithReference(WithTopic(WithEngagement(WithEmoji(StripBold(t)), e)), url))

\* ------------------------------------------------------------ generate_post
Urls == {<<"https://example.com/post">>, <<"https://example.com/a", "*", "*", "b">>}
Descriptions == {NoneT, <<"Our team shipped a new", "AI", "feature">>,
                 <<"my first", "article">>}
Commentaries == {NoneT, <<"*", "*", "wow", "*", "*">>}
ImageUrl == <<"https://images.unsplash.com/photo">>

\* what the provider can put in choices[0].message.content
ProviderTexts ==
    {<<>>,
     <<"*", "*", "Big", "*", "*", " ", "news", ".">>,
     <<"New", "AI", "model", ".", " ", "Read more:", " ", "https://example.com/post">>}

\* ContentAnalyzer.analyze_content: the structure it returns (its own failure
\* gives the default structure, content_analyzer.py lines 34-43), or an
\* exception leaving the try block of lines 65-71
Info(type, title, topic, content) ==
    [outcome |-> "ok", type |-> type, title |-> title, topic |-> topic, content |-> content]
AnalyzeRaised == [outcome |-> "raise", type |-> "", title |-> NoneT, topic |-> NoneT,
                  content |-> NoneT]
AnalyzeReplies(url) ==
    {Info("article", <<"A title">>, <<"AI">>, <<"text">>),
     Info("video", <<"A title">>, NoneT, NoneT),
     Info("generic", NoneT, NoneT, <<"page text">>),
     Info("generic", <<"Content Analysis Failed">>, <<"general">>, <<"Content from:", " ">> \o url),
     AnalyzeRaised}

ImageReplies ==
    {NetError, Http(403, ErrorBody), Http(HTTP_OK, Malformed),
     Http(HTTP_OK, [form |-> "json", results |-> <<>>]),
     Http(HTTP_OK, [form |-> "json", results |-> <<ImageUrl>>])}

Body(choices, content) == [form |-> "json", choices |-> choices, content |-> content]
ProviderReplies ==
    {NetError, Http(500, ErrorBody), Http(HTTP_OK, Malformed),
     Http(HTTP_OK, Body("absent", NoneT)),        \* no "choices" key
     Http(HTTP_OK, Body("empty", NoneT)),         \* "choices": []
     Http(HTTP_OK, Body("no_content", NoneT)),    \* choices[0] without message.content
     Http(HTTP_OK, Body("one", NoneT))}           \* "content": null
    \cup {Http(HTTP_OK, Body("one", t)) : t \in ProviderTexts}

Commentary(commentary) ==
    IF Truthy(commentary) THEN <<"Personal Commentary:">> \o commentary ELSE <<>>

\* lines 197-252
create_description_based_prompt(description, commentary) ==
    <<"Create a LinkedIn post about:">> \o Str(description)
        \o Commentary(commentary) \o <<"Guidelines:">>

\* lines 98-194
create_content_based_prompt(info, commentary) ==
    IF info.type = "article"
    THEN <<"Create a LinkedIn post about this", "article", ":">> \o Str(info.title)
            \o Str(info.topic) \o Commentary(commentary)
            \o <<"I found this", "article", "fascinating">> \o <<"Guidelines:">>
    ELSE IF info.type = "video"
    THEN <<"Create a LinkedIn post about this", "video", ":">> \o Str(info.title)
            \o Commentary(commentary)
            \o <<"Just watched this incredible", "video">> \o <<"Guidelines:">>
    ELSE create_description_based_prompt(info.content, commentary)

\* image_service.py lines 51-78: the first key found in the topic gives the query
get_tech_image(topic) ==
    IF HasLower(topic, "ai") THEN "artificial intelligence technology"
    ELSE IF HasLower(topic, "machine learning") THEN "machine learning visualization"
    ELSE IF HasLower(topic, "data science") THEN "data visualization"
    ELSE IF HasLower(topic, "programming") THEN "coding computer"
    ELSE IF HasLower(topic, "tech") THEN "technology innovation"
    ELSE IF HasLower(topic, "startup") THEN "startup office"
    ELSE IF HasLower(topic, "research") THEN "scientific research"
    ELSE IF HasLower(topic, "education") THEN "education technology"
    ELSE IF HasLower(topic, "open source") THEN "open source code"
    ELSE IF HasLower(topic, "meta") THEN "meta technology"
    ELSE IF HasLower(topic, "llama") THEN "AI model visualization"
    ELSE "technology innovation"

\* mutant of find_relevant_image: a failed search gives a stock picture
find_relevant_image_Stock(reply) ==
    IF reply.outcome # "http" THEN <<"stock.jpg">>
    ELSE IF reply.status # HTTP_OK THEN <<"stock.jpg">>
    ELSE IF reply.body.form # "json" THEN <<"stock.jpg">>
    ELSE IF reply.body.results = <<>> THEN <<"stock.jpg">>
    ELSE reply.body.results[1]

\* image_service.py lines 16-49: every failure, and an empty result, is None
find_relevant_image(reply) ==
    IF reply.outcome # "http" THEN NoneT
    ELSE IF reply.status # HTTP_OK THEN NoneT
    ELSE IF reply.body.form # "json" THEN NoneT
    ELSE IF reply.body.results = <<>> THEN NoneT
    ELSE reply.body.results[1]

ArticleFallback ==
    <<"I found this", "article", "interesting and wanted to share it with my network", ".",
      " ", "The key insights are worth discussing", ".", " ", "What are your thoughts", "?">>
VideoFallback ==
    <<"Just watched this", "video", "and found it insightful", ".", " ",
      "The content really makes you think about the future of", "technology", ".", " ",
      "Has anyone else seen this", "?">>
GenericFallback ==
    <<"Excited to share this content with my network", ".", " ",
      "The insights are valuable for anyone interested in", "technology", "and",
      "innovation", ".", " ", "What are your thoughts", "?">>

\* mutant of analysis_fallback_prompt: the URL is not put into the prompt
analysis_fallback_prompt_NoUrl(url, commentary) ==
    create_description_based_prompt(NoneT, commentary)

\* lines 72-75: the prompt built when the analysis block raised
analysis_fallback_prompt(url, commentary) ==
    create_description_based_prompt(<<"Content from:", " ">> \o url, commentary)

\* lines 329-336
generate_fallback_response(p) ==
    IF HasLower(p, "article") THEN ArticleFallback
    ELSE IF HasLower(p, "video") THEN VideoFallback
    ELSE GenericFallback

\* mutant of generate_with_deepseek: a failed request gives an empty text
generate_with_deepseek_EmptyOnError(p, reply) ==
    IF reply.outcome # "http" THEN <<>>
    ELSE IF reply.status # HTTP_OK THEN <<>>
    ELSE IF reply.body.form # "json" THEN generate_fallback_response(p)
    ELSE IF reply.body.choices \in {"absent", "empty"} THEN generate_fallback_response(p)
    ELSE IF reply.body.choices = "no_content" THEN generate_fallback_response(p)
    ELSE reply.body.content

\* lines 303-327: what _generate_with_deepseek returns for a reply
generate_with_deepseek(p, reply) ==
    IF reply.outcome # "http" THEN generate_fallback_response(p)
    ELSE IF reply.status # HTTP_OK THEN generate_fallback_response(p)
    ELSE IF reply.body.form # "json" THEN generate_fallback_response(p)
    ELSE IF reply.body.choices \in {"absent", "empty"} THEN generate_fallback_response(p)
    ELSE IF reply.body.choices = "no_content" THEN generate_fallback_response(p)
    ELSE reply.body.content

\* lines 92-96: the text of the outer except
OuterFallback(content_url, commentary) ==
    <<"Excited to share this content!", " ">> \o Or(commentary, <<>>)
        \o <<"\n\n", "Read more:", " ">> \o Or(content_url, <<"Check out the link in comments">>)

GenReturn(text, img) == [kind |-> "return", post |-> text, image_url |-> img]
GenRaise == [kind |-> "raise", post |-> <<>>, image_url |-> NoneT]
GenNoRet == [kind |-> "none", post |-> <<>>, image_url |-> NoneT]

\* mutant of generate_result: the outer try / except of lines 61, 90-96 is left out
generate_result_NoOuterTry(t, img, e, url, a) ==
    IF t = NoneT THEN GenRaise ELSE GenReturn(format_post(t, e, url), img)

\* lines 81-96: None.replace raises AttributeError, caught by the outer except
generate_result(t, img, e, url, a) ==
    IF t = NoneT
    THEN GenReturn(OuterFallback(a.content_url, a.commentary), NoneT)
    ELSE GenReturn(format_post(t, e, url), img)

\* ------------------------------------------------- _format_post on its own
Vocabulary == {"AI", "technology", "innovation", "data", ".", "?", "*", "Read more:"}
FormatTexts == UNION {[1..n -> Vocabulary] : n \in 0..MaxLen}
FormatUrls == {NoneT, <<"https://example", ".", "com/post">>}
EnthusiasmLevels == {3, 4, 5, 7, 8, 9}
Caller == CHOOSE p \in Procs : TRUE

Applied(t, out) == [kind |-> "format", bearer |-> None, data |-> t, reply |-> out]

\* _format_post(t) on the text drawn at the start
FormatOnce ==
    /\ pc[Caller] = "idle"
    /\ LET out == format_post(post[Caller], enthusiasm, last_content_url) IN
          /\ calls' = [calls EXCEPT ![Caller] = <<Applied(post[Caller], out)>>]
          /\ ret' = [ret EXCEPT ![Caller] = GenReturn(out, NoneT)]
    /\ pc' = [pc EXCEPT ![Caller] = "formatted"]
    /\ op' = [op EXCEPT ![Caller] = "format"]
    /\ UNCHANGED <<access_token, user_id, file, arg, log, asset, upload_url, post_data,
                   snap, before, handler, state, callback, posted, genvars>>

\* _format_post on what _format_post returned
FormatAgain ==
    /\ pc[Caller] = "formatted"
    /\ LET out == format_post(ret[Caller].post, enthusiasm, last_content_url) IN
          /\ calls' = [calls EXCEPT ![Caller] = Append(@, Applied(ret[Caller].post, out))]
          /\ ret' = [ret EXCEPT ![Caller] = GenReturn(out, NoneT)]
    /\ pc' = [pc EXCEPT ![Caller] = "done"]
    /\ UNCHANGED <<access_token, user_id, file, op, arg, log, asset, upload_url, post_data,
                   snap, before, handler, state, callback, posted, genvars>>

linvars == <<access_token, user_id, file, asset, upload_url, post_data, snap, before,
             state, callback, posted>>

GenArg(content_url, description, commentary) ==
    [content_url |-> content_url, description |-> description, commentary |-> commentary]
\* a request names a content URL or describes the content itself
GenInputs ==
    {GenArg(NoneT, d, c) : d \in Descriptions, c \in Commentaries}
    \cup {GenArg(u, NoneT, c) : u \in Urls, c \in Commentaries}

ImageCall(topic) == Call("image", None, [form |-> "query", query |-> get_tech_image(topic)])

\* lines 59-66 (with a content URL) or 59-62 and 77-80 (without)
StartGenerate(p, a) ==
    /\ pc[p] = "idle"
    /\ op' = [op EXCEPT ![p] = "generate"]
    /\ arg' = [arg EXCEPT ![p] = a]
    /\ ret' = [ret EXCEPT ![p] = GenNoRet]
    /\ log' = [log EXCEPT ![p] = NoLog]
    /\ image_url' = [image_url EXCEPT ![p] = NoneT]
    /\ post' = [post EXCEPT ![p] = NoneT]
    /\ IF Truthy(a.content_url)
       THEN /\ last_content_url' = a.content_url
            /\ prompt' = [prompt EXCEPT ![p] = <<>>]
            /\ calls' = [calls EXCEPT ![p] =
                   <<Call("analyze", None, [form |-> "url", url |-> a.content_url])>>]
            /\ pc' = [pc EXCEPT ![p] = "gen_analyze"]
       ELSE /\ last_content_url' = NoneT
            /\ prompt' = [prompt EXCEPT ![p] =
                   create_description_based_prompt(a.description, a.commentary)]
            /\ calls' = [calls EXCEPT ![p] =
                   <<ImageCall(Or(a.description, <<"technology">>))>>]
            /\ pc' = [pc EXCEPT ![p] = "gen_image"]
    /\ UNCHANGED <<linvars, enthusiasm>>

\* lines 66-76: the prompt and the topic of the image search
GenAnalyzeReturn(p, reply) ==
    /\ pc[p] = "gen_analyze"
    /\ LET ok == reply.outcome = "ok"
           pr == IF ok
                 THEN create_content_based_prompt(reply, arg[p].commentary)
                 ELSE analysis_fallback_prompt(arg[p].content_url, arg[p].commentary)
           topic == IF ok /\ reply.topic # NoneT THEN reply.topic ELSE <<"technology">>
       IN /\ prompt' = [prompt EXCEPT ![p] = pr]
          /\ calls' = [calls EXCEPT ![p] = Append(Replied(p, reply), ImageCall(topic))]
    /\ pc' = [pc EXCEPT ![p] = "gen_image"]
    /\ UNCHANGED <<linvars, handler, op, arg, ret, log, last_content_url, image_url, post,
                 enthusiasm>>

\* lines 71 / 76 / 80, then 82 and 254-302: the provider is called next
GenImageReturn(p, reply) ==
    /\ pc[p] = "gen_image"
    /\ image_url' = [image_url EXCEPT ![p] = find_relevant_image(reply)]
    /\ calls' = [calls EXCEPT ![p] =
           Append(Replied(p, reply),
                  Call("provider", None, [form |-> "prompt", prompt |-> prompt[p]]))]
    /\ pc' = [pc EXCEPT ![p] = "gen_provider"]
    /\ UNCHANGED <<linvars, handler, op, arg, ret, log, last_content_url, prompt, post, enthusiasm>>

\* mutant of GenProviderReturn: a failed provider call is tried again, from the
\* image lookup on, until the provider gives a text
GenProviderReturn_Retry(p, reply) ==
    /\ pc[p] = "gen_provider"
    /\ IF reply.outcome # "http" \/ reply.status # HTTP_OK
       THEN /\ calls' = [calls EXCEPT ![p] =
                   [i \in 1..(Len(calls[p]) - 1) |->
                       IF i = Len(calls[p]) - 1
                       THEN [calls[p][i] EXCEPT !.reply = Pending] ELSE calls[p][i]]]
            /\ pc' = [pc EXCEPT ![p] = "gen_image"]
            /\ UNCHANGED <<post, ret>>
       ELSE LET t == generate_with_deepseek(prompt[p], reply) IN
            /\ post' = [post EXCEPT ![p] = t]
            /\ ret' = [ret EXCEPT ![p] =
                   generate_result(t, image_url[p], enthusiasm, last_content_url, arg[p])]
            /\ calls' = [calls EXCEPT ![p] = Replied(p, reply)]
            /\ pc' = [pc EXCEPT ![p] = "done"]
    /\ UNCHANGED <<linvars, handler, op, arg, log, last_content_url, prompt, image_url,
                 enthusiasm>>

\* lines 303-327, then 82-96
GenProviderReturn(p, reply) ==
    /\ pc[p] = "gen_provider"
    /\ LET t == generate_with_deepseek(prompt[p], reply) IN
          /\ post' = [post EXCEPT ![p] = t]
          /\ ret' = [ret EXCEPT ![p] =
                 generate_result(t, image_url[p], enthusiasm, last_content_url, arg[p])]
    /\ calls' = [calls EXCEPT ![p] = Replied(p, reply)]
    /\ pc' = [pc EXCEPT ![p] = "done"]
    /\ UNCHANGED <<linvars, handler, op, arg, log, last_content_url, prompt, image_url, enthusiasm>>

\* the caller has taken the result of generate_post
GenDeliver(p) ==
    /\ pc[p] = "done"
    /\ pc' = [pc EXCEPT ![p] = "idle"]
    /\ op' = [op EXCEPT ![p] = "none"]
    /\ arg' = [arg EXCEPT ![p] = NoArg]
    /\ calls' = [calls EXCEPT ![p] = <<>>]
    /\ ret' = [ret EXCEPT ![p] = NoRet]
    /\ log' = [log EXCEPT ![p] = NoLog]
    /\ prompt' = [prompt EXCEPT ![p] = <<>>]
    /\ image_url' = [image_url EXCEPT ![p] = NoneT]
    /\ post' = [post EXCEPT ![p] = NoneT]
    /\ UNCHANGED <<linvars, last_content_url, enthusiasm>>

\* ----------------------------------------------------------- specification
Codes == {"code"}

\* src/app/main.py lines 174-200: the query string LinkedIn redirects back with
NoQuery == [code |-> "", error |-> "", state |-> None]
Queries == [code : Codes \cup {""}, error : {"", "access_denied"},
            state : Nonces \cup {None}]

\* src/app/main.py lines 174-200: an error or a missing code is answered with a
\* redirect and no call; otherwise the code is exchanged.  The state parameter
\* is received and not looked at.
linkedin_callback(p, q) ==
    /\ callback' = [callback EXCEPT ![p] = q]
    /\ IF q.error # "" \/ q.code = ""
       THEN /\ Begin(p, "callback", NoArg)
            /\ calls' = [calls EXCEPT ![p] = <<>>]
            /\ Finish(p, Return("redirect_error"), NoLog)
            /\ UNCHANGED <<access_token, user_id, file>>
       ELSE StartExchange(p, q.code)

\* the caller has taken the operation's result: the handler's frame is gone
Deliver(p) ==
    /\ pc[p] = "done"
    /\ pc' = [pc EXCEPT ![p] = "idle"]
    /\ op' = [op EXCEPT ![p] = "none"]
    /\ arg' = [arg EXCEPT ![p] = NoArg]
    /\ calls' = [calls EXCEPT ![p] = <<>>]
    /\ ret' = [ret EXCEPT ![p] = NoRet]
    /\ log' = [log EXCEPT ![p] = NoLog]
    /\ asset' = [asset EXCEPT ![p] = None]
    /\ upload_url' = [upload_url EXCEPT ![p] = None]
    /\ post_data' = [post_data EXCEPT ![p] = NoPost]
    /\ snap' = [snap EXCEPT ![p] = NoFile]
    /\ before' = [before EXCEPT ![p] = NoHeld]
    /\ callback' = [callback EXCEPT ![p] = NoQuery]
    /\ UNCHANGED <<access_token, user_id, file, state, posted, genvars>>

InitLinkedIn ==
    /\ file = NoFile
    /\ access_token = LoadToken(NoFile).access_token
    /\ user_id = LoadToken(NoFile).user_id
    /\ pc = [p \in Procs |-> "idle"]
    /\ op = [p \in Procs |-> "none"]
    /\ arg = [p \in Procs |-> NoArg]
    /\ calls = [p \in Procs |-> <<>>]
    /\ ret = [p \in Procs |-> NoRet]
    /\ log = [p \in Procs |-> NoLog]
    /\ asset = [p \in Procs |-> None]
    /\ upload_url = [p \in Procs |-> None]
    /\ post_data = [p \in Procs |-> NoPost]
    /\ snap = [p \in Procs |-> NoFile]
    /\ before = [p \in Procs |-> NoHeld]
    /\ handler = [p \in Procs |-> NoHandler]
    /\ state \in Nonces
    /\ callback = [p \in Procs |-> NoQuery]
    /\ posted = 0

\* personality.py line 7 gives the default; a caller may pass another setting
InitGeneration(settings) ==
    /\ last_content_url = NoneT
    /\ enthusiasm \in settings
    /\ prompt = [p \in Procs |-> <<>>]
    /\ image_url = [p \in Procs |-> NoneT]
    /\ post = [p \in Procs |-> NoneT]

Init == InitLinkedIn /\ InitGeneration({DefaultEnthusiasm})

\* the operations a request handler can start
Operation(p) ==
    /\ \/ \E q \in Queries : linkedin_callback(p, q)
       \/ StartValidate(p) /\ UNCHANGED callback
       \/ GetAuthUrl(p) /\ UNCHANGED callback
       \/ \E content \in Texts, image \in ImageSources :
             StartPublish(p, content, image) /\ UNCHANGED callback
    /\ UNCHANGED handler

\* The handlers of src/app/main.py are coroutines that call the service's
\* blocking methods without awaiting inside them: one operation runs at a time.
Start(p) == Quiet /\ Operation(p)

Next ==
    \/ \E p \in Procs : Start(p)
    \/ \E p \in Procs : ExTokenReturn(p)
    \/ \E p \in Procs : ExUserinfoReturn(p)
    \/ \E p \in Procs : ValUserinfoReturn(p)
    \/ \E p \in Procs : PubProbeReturn(p)
    \/ \E p \in Procs : PubRegisterReturn(p)
    \/ \E p \in Procs : PubFetchReturn(p)
    \/ \E p \in Procs : PubUploadReturn(p)
    \/ \E p \in Procs : PubPostReturn(p)
    \/ \E p \in Procs : Deliver(p) /\ UNCHANGED handler
    \/ NewInstance

Spec == Init /\ [][Next]_vars

\* LinkedInService holds no lock: callers on different threads overlap, and an
\* operation is started while another one waits for a reply.  Two callers are
\* followed, each through one operation that touches the token state (the
\* exchange, the validation, a publish call without an image), on an instance
\* constructed over any token file a successful exchange can have left.
StoredFiles == {NoFile} \cup {TokenRecord(t, u) : t \in Tokens, u \in Users}

InitConc ==
    /\ file \in StoredFiles
    /\ access_token = LoadToken(file).access_token
    /\ user_id = LoadToken(file).user_id
    /\ pc = [p \in Procs |-> "idle"]
    /\ op = [p \in Procs |-> "none"]
    /\ arg = [p \in Procs |-> NoArg]
    /\ calls = [p \in Procs |-> <<>>]
    /\ ret = [p \in Procs |-> NoRet]
    /\ log = [p \in Procs |-> NoLog]
    /\ asset = [p \in Procs |-> None]
    /\ upload_url = [p \in Procs |-> None]
    /\ post_data = [p \in Procs |-> NoPost]
    /\ snap = [p \in Procs |-> NoFile]
    /\ before = [p \in Procs |-> NoHeld]
    /\ handler = [p \in Procs |-> NoHandler]
    /\ state \in Nonces
    /\ callback = [p \in Procs |-> NoQuery]
    /\ posted = 0
    /\ InitGeneration({DefaultEnthusiasm})

OperationConc(p) ==
    /\ \/ \E code \in Codes : StartExchange(p, code)
       \/ StartValidate(p)
       \/ \E content \in Texts : StartPublish(p, content, "none")
    /\ UNCHANGED <<callback, handler>>

NextConc ==
    \/ \E p \in Procs : OperationConc(p)
    \/ \E p \in Procs : ExTokenReturn(p)
    \/ \E p \in Procs : ExUserinfoReturn(p)
    \/ \E p \in Procs : ValUserinfoReturn(p)
    \/ \E p \in Procs : PubProbeReturn(p)
    \/ \E p \in Procs : PubPostReturn(p)

SpecConc == InitConc /\ [][NextConc]_vars

\* The generation service on its own: one generate_post call at a time, under
\* each personality setting.
InitGen == InitLinkedIn /\ InitGeneration(Enthusiasms)

NextGen ==
    \/ \E p \in Procs : \E a \in GenInputs :
          Quiet /\ StartGenerate(p, a) /\ UNCHANGED handler
    \/ \E p \in Procs : /\ pc[p] = "gen_analyze"
                         /\ \E reply \in AnalyzeReplies(arg[p].content_url) :
                               GenAnalyzeReturn(p, reply)
    \/ \E p \in Procs : \E reply \in ImageReplies : GenImageReturn(p, reply)
    \/ \E p \in Procs : \E reply \in ProviderReplies : GenProviderReturn(p, reply)
    \/ \E p \in Procs : GenDeliver(p) /\ UNCHANGED handler

SpecGen == InitGen /\ [][NextGen]_vars

\* _format_post as a function: every text up to MaxLen tokens, every
\* enthusiasm level around the two thresholds, with and without a content URL
InitFormat ==
    /\ InitLinkedIn
    /\ state = CHOOSE n \in Nonces : TRUE
    /\ last_content_url \in FormatUrls
    /\ enthusiasm \in EnthusiasmLevels
    /\ prompt = [p \in Procs |-> <<>>]
    /\ image_url = [p \in Procs |-> NoneT]
    /\ \E t \in FormatTexts : post = [p \in Procs |-> IF p = Caller THEN t ELSE NoneT]

NextFormat == FormatOnce \/ FormatAgain

SpecFormat == InitFormat /\ [][NextFormat]_vars


\* ------------------------------------------- handlers of src/app/main.py
\* lines 222-225 and 231-234: the text both fallbacks of the handler return
HandlerFallback ==
    <<"Excited to share this content!", "\n\n", "Check out the details in the comments">>

PostRequest(content, image) == [form |-> "post", content |-> content, image |-> image]
\* a generation request may name neither a content URL nor a description
HandlerInputs == GenInputs \cup {GenArg(NoneT, NoneT, c) : c \in Commentaries}

\* no request handler is running
Free == \A q \in Procs : handler[q] = NoHandler

\* the handler answers: `return {...}` is status 200, `raise HTTPException(s, d)`
\* is status s with detail d
Respond(h, status, detail, text, img) ==
    [h EXCEPT !.stage = "responded", !.status = status, !.detail = detail,
              !.post = text, !.image_url = img]

\* lines 252-268: the handler reads the request and calls the validation
post_to_linkedin(p, content, image) ==
    /\ Free /\ Quiet
    /\ posted < MaxPosts
    /\ handler' = [handler EXCEPT ![p] =
           [NoHandler EXCEPT !.name = "post_to_linkedin", !.stage = "validate",
                             !.request = PostRequest(content, image)]]
    /\ StartValidate(p)
    /\ UNCHANGED callback

\* lines 266-268 and 278-280: the validation has returned.  On False the
\* handler raises HTTPException(401) inside its try block; HTTPException is an
\* Exception, so `except Exception` catches it and raises HTTPException(500).
PostValidated(p) ==
    /\ handler[p].name = "post_to_linkedin" /\ handler[p].stage = "validate"
    /\ pc[p] = "done"
    /\ handler' = [handler EXCEPT ![p] =
           IF ret[p].value = "True"
           THEN [@ EXCEPT !.stage = "create", !.authenticated = "True"]
           ELSE Respond([@ EXCEPT !.authenticated = "False"],
                        500, "Failed to create LinkedIn post", NoneT, NoneT)]
    /\ Deliver(p)

\* lines 270-272: create_post is called with the request's text and image
PostCreate(p) ==
    /\ handler[p].name = "post_to_linkedin" /\ handler[p].stage = "create"
    /\ handler' = [handler EXCEPT ![p].stage = "publish"]
    /\ StartPublish(p, handler[p].request.content, handler[p].request.image)
    /\ UNCHANGED callback

\* lines 274-280: create_post has returned
PostCreated(p) ==
    /\ handler[p].name = "post_to_linkedin" /\ handler[p].stage = "publish"
    /\ pc[p] = "done"
    /\ handler' = [handler EXCEPT ![p] =
           IF ret[p].value = "True"
           THEN Respond(@, 200, "Post created successfully", NoneT, NoneT)
           ELSE Respond(@, 500, "Failed to create LinkedIn post", NoneT, NoneT)]
    /\ Deliver(p)

\* lines 202-217 and 229-235: a request with neither field raises
\* HTTPException(400) inside the try block, `except Exception` catches it and
\* the handler returns the fallback; any other request reaches generate_post
generate_post(p, a) ==
    /\ Free /\ Quiet
    /\ IF ~Truthy(a.description) /\ ~Truthy(a.content_url)
       THEN /\ handler' = [handler EXCEPT ![p] =
                   Respond([NoHandler EXCEPT !.name = "generate_post", !.request = a],
                           200, "", HandlerFallback, NoneT)]
            /\ UNCHANGED <<linvars, genvars, pc, op, arg, calls, ret, log>>
       ELSE /\ handler' = [handler EXCEPT ![p] =
                   [NoHandler EXCEPT !.name = "generate_post", !.stage = "generate",
                                     !.request = a]]
            /\ StartGenerate(p, a)

\* lines 219-227: generate_post has returned a result
GenerateDone(p) ==
    /\ handler[p].name = "generate_post" /\ handler[p].stage = "generate"
    /\ pc[p] = "done"
    /\ handler' = [handler EXCEPT ![p] =
           IF ret[p].kind = "return"
           THEN Respond(@, 200, "", ret[p].post, ret[p].image_url)
           ELSE Respond(@, 200, "", HandlerFallback, NoneT)]
    /\ GenDeliver(p)

\* the response has gone to the client
Responded(p) ==
    /\ handler[p].stage = "responded"
    /\ handler' = [handler EXCEPT ![p] = NoHandler]
    /\ UNCHANGED <<linvars, genvars, pc, op, arg, calls, ret, log>>

\* The handlers of src/app/main.py on one service instance, one request at a
\* time, over any token file a successful exchange can have left.
NextApp ==
    \/ \E p \in Procs : \E content \in Texts, image \in ImageSources :
          post_to_linkedin(p, content, image)
    \/ \E p \in Procs : ValUserinfoReturn(p)
    \/ \E p \in Procs : PostValidated(p)
    \/ \E p \in Procs : PostCreate(p)
    \/ \E p \in Procs : PubProbeReturn(p)
    \/ \E p \in Procs : PubRegisterReturn(p)
    \/ \E p \in Procs : PubFetchReturn(p)
    \/ \E p \in Procs : PubUploadReturn(p)
    \/ \E p \in Procs : PubPostReturn(p)
    \/ \E p \in Procs : PostCreated(p)
    \/ \E p \in Procs : \E a \in HandlerInputs : generate_post(p, a)
    \/ \E p \in Procs : /\ pc[p] = "gen_analyze"
                         /\ \E reply \in AnalyzeReplies(arg[p].content_url) :
                               GenAnalyzeReturn(p, reply)
    \/ \E p \in Procs : \E reply \in ImageReplies : GenImageReturn(p, reply)
    \/ \E p \in Procs : \E reply \in ProviderReplies : GenProviderReturn(p, reply)
    \/ \E p \in Procs : GenerateDone(p)
    \/ \E p \in Procs : Responded(p)

SpecApp == InitConc /\ [][NextApp]_vars

\* generate_post awaits its three calls (aiohttp): on the event loop a second
\* generate_post runs while the first waits.  Two callers are followed, each
\* through one call, under the default personality; last_content_url belongs
\* to the one DeepseekService instance both use.
OverlapInputs ==
    {GenArg(u, NoneT, NoneT) : u \in Urls}
    \cup {GenArg(NoneT, <<"Our team shipped a new", "AI", "feature">>, NoneT)}
OverlapAnalyzeReplies ==
    {Info("article", <<"A title">>, <<"AI">>, <<"text">>), AnalyzeRaised}
OverlapImageReplies ==
    {NetError, Http(HTTP_OK, [form |-> "json", results |-> <<ImageUrl>>])}
OverlapProviderReplies ==
    {Http(500, ErrorBody)} \cup {Http(HTTP_OK, Body("one", t)) : t \in ProviderTexts}

NextOverlap ==
    \/ \E p \in Procs : \E a \in OverlapInputs : StartGenerate(p, a) /\ UNCHANGED handler
    \/ \E p \in Procs : \E reply \in OverlapAnalyzeReplies : GenAnalyzeReturn(p, reply)
    \/ \E p \in Procs : \E reply \in OverlapImageReplies : GenImageReturn(p, reply)
    \/ \E p \in Procs : \E reply \in OverlapProviderReplies : GenProviderReturn(p, reply)

SpecOverlap == Init /\ [][NextOverlap]_vars

\* The four public operations, each followed from its start to its return,
\* with every outbound call answered in the end: the step in which the pending
\* call of an operation returns is weakly fair.  Nothing obliges a caller to
\* start an operation.
OperationLive(p) ==
    /\ \/ \E code \in Codes : StartExchange(p, code)
       \/ StartValidate(p)
       \/ \E content \in Texts, image \in ImageSources : StartPublish(p, content, image)
    /\ UNCHANGED <<callback, handler>>

NextLive ==
    \/ \E p \in Procs : Quiet /\ OperationLive(p)
    \/ \E p \in Procs : \E a \in OverlapInputs :
          Quiet /\ StartGenerate(p, a) /\ UNCHANGED handler
    \/ \E p \in Procs : ExTokenReturn(p)
    \/ \E p \in Procs : ExUserinfoReturn(p)
    \/ \E p \in Procs : ValUserinfoReturn(p)
    \/ \E p \in Procs : PubProbeReturn(p)
    \/ \E p \in Procs : PubRegisterReturn(p)
    \/ \E p \in Procs : PubFetchReturn(p)
    \/ \E p \in Procs : PubUploadReturn(p)
    \/ \E p \in Procs : PubPostReturn(p)
    \/ \E p \in Procs : \E reply \in OverlapAnalyzeReplies : GenAnalyzeReturn(p, reply)
    \/ \E p \in Procs : \E reply \in OverlapImageReplies : GenImageReturn(p, reply)
    \/ \E p \in Procs : \E reply \in OverlapProviderReplies : GenProviderReturn(p, reply)

\* the pending call of p's operation returns; pc[p] tells which one it is
CallReturns(p) ==
    \/ ExTokenReturn(p)
    \/ ExUserinfoReturn(p)
    \/ ValUserinfoReturn(p)
    \/ PubProbeReturn(p)
    \/ PubRegisterReturn(p)
    \/ PubFetchReturn(p)
    \/ PubUploadReturn(p)
    \/ PubPostReturn(p)
    \/ \E reply \in OverlapAnalyzeReplies : GenAnalyzeReturn(p, reply)
    \/ \E reply \in OverlapImageReplies : GenImageReturn(p, reply)
    \/ \E reply \in OverlapProviderReplies : GenProviderReturn(p, reply)

\* every step in which a call returns moves pc, so fairness is stated on pc
EveryCallReturns == \A p \in Procs : WF_pc(CallReturns(p))

\* no token file, or the record of one successful exchange
InitLive ==
    /\ InitConc
    /\ file \in {NoFile, CHOOSE f \in StoredFiles : f # NoFile}
    /\ state = CHOOSE n \in Nonces : TRUE

SpecLive == InitLive /\ [][NextLive]_vars /\ EveryCallReturns

\* ================================================================= claims
\* what the remote side answered, read off the call log (not off the code's tests)
Answered(c) == c.reply.outcome # "pending"
Status(c, s) == c.reply.outcome = "http" /\ c.reply.status = s
Json(c) == c.reply.body.form = "json"
Succeeded(c) ==
    CASE c.kind = "token"    -> Status(c, 200) /\ Json(c) /\ c.reply.body.access_token # None
      [] c.kind = "userinfo" -> Status(c, 200) /\ Json(c) /\ c.reply.body.sub # None
      [] c.kind = "register" -> /\ Status(c, 200) /\ Json(c)
                                /\ c.reply.body.asset # None /\ c.reply.body.uploadUrl # None
      [] c.kind = "fetch"    -> Status(c, 200)
      [] c.kind = "upload"   -> Status(c, 201)
      [] c.kind = "post"     -> Status(c, 201)
Failed(c) == Answered(c) /\ ~Succeeded(c)
Kinds(s) == [i \in DOMAIN s |-> s[i].kind]
IsPrefix(s, t) == Len(s) <= Len(t) /\ \A i \in DOMAIN s : s[i] = t[i]
Last(s) == s[Len(s)]
Publishing(p) == op[p] = "publish"
ReturnedFalse(p) == pc[p] = "done" /\ ret[p].kind = "return" /\ ret[p].value = "False"
ReturnedTrue(p) == pc[p] = "done" /\ ret[p].kind = "return" /\ ret[p].value = "True"

\* C1: a content-creation request of a publish call carries an asset identifier
\* (media category IMAGE) only if, earlier in the same call, the registration
\* call was answered 200 with that identifier and the upload PUT was answered 201.
C1_AssetOnlyAfterUpload ==
    \A p \in Procs : \A i \in DOMAIN calls[p] :
        (/\ Publishing(p)
         /\ calls[p][i].kind = "post"
         /\ (calls[p][i].data.media # None \/ calls[p][i].data.shareMediaCategory = "IMAGE"))
        => \E j \in 1..(i-1) : \E k \in (j+1)..(i-1) :
              /\ calls[p][j].kind = "register"
              /\ Succeeded(calls[p][j])
              /\ calls[p][j].reply.body.asset = calls[p][i].data.media
              /\ calls[p][i].data.shareMediaCategory = "IMAGE"
              /\ calls[p][k].kind = "upload"
              /\ Status(calls[p][k], 201)

C1_Witness ==
    \E p \in Procs :
        /\ Publishing(p) /\ arg[p].image = "url" /\ calls[p] # <<>>
        /\ Last(calls[p]).kind = "post" /\ Last(calls[p]).data.media \in Assets

\* C2: the outbound calls of one publish call come in the order validation probe,
\* (with an image source only) registration, image download, upload, then the
\* content-creation POST; a call is issued only when every earlier call of the
\* same publish has been answered with success.
PublishOrder(image) ==
    IF image = "none" THEN <<"userinfo", "post">>
    ELSE <<"userinfo", "register", "fetch", "upload", "post">>

C2_FixedOrder ==
    \A p \in Procs : Publishing(p) =>
        /\ IsPrefix(Kinds(calls[p]), PublishOrder(arg[p].image))
        /\ \A i \in DOMAIN calls[p] : i < Len(calls[p]) => Succeeded(calls[p][i])

C2_Witness ==
    \E p \in Procs :
        /\ Publishing(p) /\ ReturnedTrue(p)
        /\ Kinds(calls[p]) = <<"userinfo", "register", "fetch", "upload", "post">>

\* C3: a failing step of publish (validation false, registration refused or
\* without its fields, image bytes not obtainable, upload not answered 201) is the
\* last call of that publish, and publish has returned False to its caller.
C3_FailFast ==
    \A p \in Procs : Publishing(p) =>
        /\ \A i \in DOMAIN calls[p] : Failed(calls[p][i]) =>
               i = Len(calls[p]) /\ ReturnedFalse(p)
        /\ (/\ arg[p].image = "path" /\ calls[p] # <<>>
            /\ Last(calls[p]).kind = "register" /\ Answered(Last(calls[p])))
           => ReturnedFalse(p)
        /\ (pc[p] = "done" /\ calls[p] = <<>>) => ReturnedFalse(p)

C3_Witness ==
    \E p \in Procs :
        /\ Publishing(p) /\ ReturnedFalse(p) /\ calls[p] # <<>>
        /\ Last(calls[p]).kind = "upload" /\ Status(Last(calls[p]), 400)

\* C4: a publish call that starts with no durable token record returns False and
\* issues no call but the validation probe.
C4_NoRecordNoCalls ==
    \A p \in Procs : (Publishing(p) /\ snap[p] = NoFile) =>
        /\ \A i \in DOMAIN calls[p] : calls[p][i].kind = "userinfo"
        /\ pc[p] = "done" => ReturnedFalse(p)

\* With no access token held in memory, create_post returns False without any call.
NoTokenHeldNoCalls ==
    \A p \in Procs : (Publishing(p) /\ access_token = None) =>
        /\ calls[p] = <<>>
        /\ ReturnedFalse(p)
        /\ log[p].msg = "Not authenticated with LinkedIn"

\* C5: the token file changes only in the step of exchange_code_for_token that
\* returns True, after the token endpoint answered 200 with an access token and
\* the identity endpoint answered 200 with a user id in that same call.
C5_WriteOnlyAfterBoth ==
    [][file' # file =>
         \E p \in Procs :
            /\ op[p] = "exchange" /\ pc[p] = "ex_userinfo" /\ ReturnedTrue(p)'
            /\ Kinds(calls'[p]) = <<"token", "userinfo">>
            /\ Succeeded(calls'[p][1]) /\ Succeeded(calls'[p][2])]_vars

C5_Witness ==
    \E p \in Procs :
        /\ op[p] = "exchange" /\ ReturnedTrue(p)
        /\ file.form = "json" /\ file # snap[p]

\* C6: an exchange_code_for_token call in which the token endpoint or the
\* identity endpoint did not answer with success (network error, non-200, no
\* access token, no user id) raises to its caller and leaves the token file as
\* it was when the call started.
C6_FailedExchangeKeepsFile ==
    \A p \in Procs :
        (/\ op[p] = "exchange" /\ pc[p] = "done"
         /\ \E i \in DOMAIN calls[p] : Failed(calls[p][i]))
        => ret[p].kind = "raise" /\ file = snap[p]

C6_Witness ==
    \E p \in Procs :
        /\ op[p] = "exchange" /\ pc[p] = "done" /\ ret[p].kind = "raise"
        /\ Len(calls[p]) = 2 /\ Failed(calls[p][2])
        /\ snap[p].form = "json"

\* C7: whenever exchange_code_for_token returns True, loading the token file on
\* a new instance gives the access token of the token reply and the user id of
\* the identity reply of that call.
C7_RoundTrip ==
    \A p \in Procs : (op[p] = "exchange" /\ ReturnedTrue(p)) =>
        LoadToken(file) = [access_token |-> calls[p][1].reply.body.access_token,
                           user_id |-> calls[p][2].reply.body.sub]

\* C8: _validate_token_and_user_id always returns a bool; it returns True only
\* when it sent one identity call bearing the held access token and that call
\* was answered 200 with a subject id, and False in every other case.
C8_ValidateNeverRaises ==
    \A p \in Procs : (op[p] = "validate" /\ pc[p] = "done") =>
        /\ ret[p].kind = "return"
        /\ ret[p].value \in {"True", "False"}
        /\ ret[p].value = "True" <=>
              /\ Len(calls[p]) = 1
              /\ calls[p][1].kind = "userinfo"
              /\ calls[p][1].bearer = access_token /\ access_token # None
              /\ Succeeded(calls[p][1])

C8_Witness ==
    \E p \in Procs :
        /\ op[p] = "validate" /\ ReturnedFalse(p)
        /\ Len(calls[p]) = 1 /\ Status(calls[p][1], 200) /\ Json(calls[p][1])
        /\ calls[p][1].reply.body.sub = None

\* C9: when the content-creation endpoint answers a publish call with a status
\* other than 201, what create_post hands to its caller carries that status and
\* that response body.
C9_FailureCarriesStatusAndBody ==
    \A p \in Procs :
        (/\ Publishing(p) /\ pc[p] = "done" /\ calls[p] # <<>>
         /\ Last(calls[p]).kind = "post"
         /\ Last(calls[p]).reply.outcome = "http" /\ Last(calls[p]).reply.status # 201)
        => /\ ret[p].status = Last(calls[p]).reply.status
           /\ ret[p].body = Last(calls[p]).reply.body

\* C10: from its first step to its return, whatever the outcome, a publish call
\* leaves the token file as it was when the call started.
C10_PublishKeepsFile ==
    \A p \in Procs : Publishing(p) => file = snap[p]

C10_Witness ==
    \E p \in Procs :
        /\ Publishing(p) /\ ReturnedFalse(p) /\ calls[p] # <<>>
        /\ Last(calls[p]).kind = "post" /\ Status(Last(calls[p]), 403)
        /\ file.form = "json" /\ file.user_id # user_id

\* C11: when the whole publish pipeline succeeds, what create_post returns to
\* its caller is a result from which the remote post id can be read (the body
\* of the 201 answer), not a bare success flag.
C11_ResultCarriesPostId ==
    \A p \in Procs :
        (Publishing(p) /\ ReturnedTrue(p))
        => /\ ret[p].body.form = "json"
           /\ ret[p].body = Last(calls[p]).reply.body

\* C12: publish has no deduplication.  Every publish call whose validation
\* probe succeeded and whose media steps (if any) ended with the upload answered
\* 201 has sent its own content-creation POST with its own text, however many
\* content-creation requests were sent before it.
PassedValidation(p) == calls[p] # <<>> /\ Succeeded(calls[p][1])
PassedMedia(p) ==
    \/ arg[p].image = "none"
    \/ \E i \in DOMAIN calls[p] : calls[p][i].kind = "upload" /\ Status(calls[p][i], 201)

C12_EveryPublishPosts ==
    \A p \in Procs :
        (Publishing(p) /\ PassedValidation(p) /\ PassedMedia(p))
        => /\ Last(calls[p]).kind = "post"
           /\ Last(calls[p]).data.text = arg[p].content
           /\ posted >= 1

\* a second content-creation request with the same text has been sent
C12_Witness ==
    /\ posted = 2
    /\ \E p \in Procs :
          /\ Publishing(p) /\ PassedValidation(p) /\ arg[p].image = "url"
          /\ Last(calls[p]).kind = "post"
          /\ Last(calls[p]).data.text = "hello world"

\* C18: an authorization code is exchanged only if the state received on the
\* callback equals the nonce of the service instance; a callback with another
\* state, or none, leads to no token-endpoint call.
C18_StateChecked ==
    \A p \in Procs :
        (op[p] = "exchange" /\ calls[p] # <<>>) => callback[p].state = state

\* C19: every asset-upload PUT of a publish call carries the bearer token of
\* the access token the service holds.
C19_UploadCarriesBearer ==
    \A p \in Procs : \A i \in DOMAIN calls[p] :
        (Publishing(p) /\ calls[p][i].kind = "upload")
        => /\ calls[p][i].bearer # None
           /\ calls[p][i].bearer = GetHeaders(access_token)

\* C20: a successful validation sets the in-memory user id to the subject id
\* just resolved and changes nothing else: the access token is the one the
\* probe was sent with and the token file is as it was when validation started.
C20_ValidateSetsOnlyUserId ==
    \A p \in Procs :
        (op[p] = "validate" /\ ReturnedTrue(p))
        => /\ user_id = calls[p][1].reply.body.sub
           /\ access_token = calls[p][1].bearer
           /\ file = snap[p]

\* a re-validation resolved another identity than the one in the file
C20_Witness ==
    \E p \in Procs :
        /\ op[p] = "validate" /\ ReturnedTrue(p)
        /\ file.form = "json" /\ file.user_id \in Users
        /\ file.user_id # user_id /\ user_id \in Users

\* ------------------------------------------------------ generation claims
Generated(p) == op[p] = "generate" /\ pc[p] = "done"
EndsWith(t, s) == Len(s) <= Len(t) /\ SubSeq(t, Len(t) - Len(s) + 1, Len(t)) = s
ReplyOf(p, kind) ==
    LET i == CHOOSE i \in DOMAIN calls[p] : calls[p][i].kind = kind IN calls[p][i].reply
\* the provider answered 200 with a JSON body whose content field holds a text
Usable(reply) ==
    /\ reply.outcome = "http" /\ reply.status = 200 /\ reply.body.form = "json"
    /\ reply.body.choices = "one" /\ reply.body.content # NoneT
\* the image search answered 200 with at least one result
ImageFound(reply) ==
    /\ reply.outcome = "http" /\ reply.status = 200 /\ reply.body.form = "json"
    /\ reply.body.results # <<>>

\* C13: generate_post never raises: whatever content analysis, image lookup and
\* the provider answered, it returns a result, and the text of the result is
\* not empty.
C13_GenerateNeverFails ==
    \A p \in Procs :
        Generated(p) => /\ ret[p].kind = "return"
                        /\ ret[p].post # <<>>
                        /\ ret[p].post # NoneT

\* every collaborator failed: analysis raised, the image search failed, the
\* provider answered 200 with "content": null
C13_Witness ==
    \E p \in Procs :
        /\ Generated(p) /\ Len(calls[p]) = 3
        /\ calls[p][1].reply = AnalyzeRaised
        /\ calls[p][2].reply = NetError
        /\ calls[p][3].reply = Http(200, Body("one", NoneT))

\* C14: the text generate_post returns never contains "**".
C14_NoBold ==
    \A p \in Procs : Generated(p) => ~HasBold(ret[p].post)

\* C15: when the provider call gives no usable content (network error, status
\* other than 200, body that is not JSON, no choices, no content field, null
\* content) the text handed to _format_post is the fallback string chosen from
\* the prompt: article, else video, else generic.
C15_FallbackOnUnusable ==
    \A p \in Procs :
        (Generated(p) /\ ~Usable(ReplyOf(p, "provider")))
        => post[p] = (IF Has(prompt[p], "article") THEN ArticleFallback
                      ELSE IF Has(prompt[p], "video") THEN VideoFallback
                      ELSE GenericFallback)

\* C16: every generate_post call attempts the image lookup and then calls the
\* provider, whatever the lookup gave; a failed lookup only makes the image
\* reference of the result null, the result still carries the text.
C16_ImageIndependent ==
    \A p \in Procs :
        Generated(p)
        => /\ \E i \in DOMAIN calls[p] :
                 /\ calls[p][i].kind = "image"
                 /\ i + 1 = Len(calls[p])
                 /\ calls[p][i + 1].kind = "provider"
                 /\ (~ImageFound(calls[p][i].reply) => ret[p].image_url = NoneT)
           /\ ret[p].kind = "return"
           /\ ret[p].post # <<>>

\* the lookup failed, the provider answered 500, the result has text and no image
C16_Witness ==
    \E p \in Procs :
        /\ Generated(p)
        /\ ReplyOf(p, "image") = Http(403, ErrorBody)
        /\ ReplyOf(p, "provider") = Http(500, ErrorBody)
        /\ ret[p].image_url = NoneT
        /\ Has(ret[p].post, "technology")

\* C17: when the provider's text has no reference marker, the result ends with
\* a reference line naming the request's content URL; when the request named
\* no content URL, nothing is appended and the result has no "Read more:".
C17_ReferenceOnlyWithUrl ==
    \A p \in Procs :
        (Generated(p) /\ post[p] # NoneT /\ ~HasMarker(post[p]))
        => IF Truthy(arg[p].content_url)
           THEN EndsWith(ret[p].post, <<"Read more:", " ">> \o arg[p].content_url)
           ELSE ~Has(ret[p].post, "Read more:")

\* ------------------------------------------------- token and publish claims
\* C21: after a successful validation that resolved a user id other than the
\* one in the token file, the file holds the newly resolved user id.
C21_RevalidationPersists ==
    \A p \in Procs :
        (op[p] = "validate" /\ ReturnedTrue(p) /\ snap[p].form = "json")
        => file.form = "json" /\ file.user_id = user_id

\* C22: a publish call given a local file path reads the file and goes on to
\* the upload PUT once registration succeeded; nothing is fetched over the
\* network for a path.
C22_LocalPathUploaded ==
    \A p \in Procs :
        (/\ Publishing(p) /\ pc[p] = "done" /\ arg[p].image = "path"
         /\ \E i \in DOMAIN calls[p] : calls[p][i].kind = "register" /\ Succeeded(calls[p][i]))
        => /\ \E i \in DOMAIN calls[p] : calls[p][i].kind = "upload"
           /\ \A i \in DOMAIN calls[p] : calls[p][i].kind # "fetch"

\* C24: one exchange_code_for_token call issues at most one token-endpoint call
\* and then at most one identity call; the identity call is issued only after
\* the token endpoint answered 200 with a non-empty access token, and carries
\* that token as bearer.
C24_ExchangeOrder ==
    \A p \in Procs :
        op[p] = "exchange"
        => /\ IsPrefix(Kinds(calls[p]), <<"token", "userinfo">>)
           /\ Len(calls[p]) = 2
              => /\ Succeeded(calls[p][1])
                 /\ calls[p][2].bearer = calls[p][1].reply.body.access_token

\* the exchange failed at the identity call: no retry, two calls in all
C24_Witness ==
    \E p \in Procs :
        /\ op[p] = "exchange" /\ pc[p] = "done" /\ ret[p].kind = "raise"
        /\ Len(calls[p]) = 2 /\ Status(calls[p][2], 401)

\* C25: get_auth_url changes nothing and depends on the instance only: each
\* call returns the URL with the four scopes, the client id, the escaped
\* redirect URI and the nonce of the instance; the token state and the nonce
\* are as before the call, and the nonce changes only when a new instance is
\* constructed.
C25_AuthUrlPure ==
    [][/\ \A p \in Procs :
            (pc[p] = "idle" /\ op'[p] = "auth_url")
            => /\ ret'[p].kind = "return"
               /\ ret'[p].body =
                      [form |-> "url",
                       base |-> "https://www.linkedin.com/oauth/v2/authorization",
                       response_type |-> "code", client_id |-> "client-id",
                       redirect_uri |-> <<"http", "%3A", "//localhost", "%3A",
                                          "8000/api/auth/callback">>,
                       scope |-> <<"openid", "profile", "email", "w_member_social">>,
                       state |-> state]
               /\ calls'[p] = <<>>
               /\ UNCHANGED <<access_token, user_id, file, state>>
       /\ state' # state => (Quiet /\ pc' = pc)]_vars

\* a URL was built on an instance that holds a token
C25_Witness ==
    \E p \in Procs :
        /\ op[p] = "auth_url" /\ pc[p] = "done"
        /\ ret[p].body.state = state /\ access_token \in Tokens /\ file.form = "json"

\* C23: nothing keeps two operations on the token state apart.  Whenever the
\* token file is written, the writer is an exchange at its last step and what
\* it writes is the access token held in memory at that moment, whichever
\* operation obtained it, with the user id the writer resolved: the last writer
\* wins, and an exchange whose token was replaced meanwhile stores the other's.
C23_LastWriterWins ==
    [][file' # file
       => \E p \in Procs :
             /\ pc[p] = "ex_userinfo" /\ pc'[p] = "done"
             /\ \/ file' = Garbage
                \/ file' = TokenRecord(access_token, user_id')]_vars

\* two exchanges overlap: p obtained its token, q obtained another one, then p
\* finished and wrote the file, which holds q's token while q has yet to write
C23_Witness ==
    \E p, q \in Procs :
        /\ p # q /\ op[p] = "exchange" /\ op[q] = "exchange"
        /\ ReturnedTrue(p) /\ pc[q] = "ex_userinfo"
        /\ file.form = "json"
        /\ file.access_token = calls[q][1].reply.body.access_token
        /\ file.access_token # calls[p][1].reply.body.access_token

\* ------------------------------------------------- generation claims, continued
ProviderCalls(p) == Len(SelectSeq(calls[p], LAMBDA c : c.kind = "provider"))
\* network error, status other than 200, body that is not JSON, no choices, or
\* a first choice without a content field
ProviderFailed(reply) ==
    \/ reply.outcome # "http"
    \/ reply.status # 200
    \/ reply.body.form # "json"
    \/ reply.body.choices # "one"

\* C26: a generate_post call sends at most one request to the provider, and
\* exactly one once the prompt is built and the image lookup is over; after a
\* failed request no second one is sent and the text is one of the fallbacks.
C26_OneProviderCall ==
    \A p \in Procs :
        op[p] = "generate"
        => /\ ProviderCalls(p) <= 1
           /\ ProviderCalls(p) = 1 <=> pc[p] \in {"gen_provider", "done"}
           /\ (Generated(p) /\ ProviderFailed(Last(calls[p]).reply))
              => /\ Last(calls[p]).kind = "provider"
                 /\ post[p] \in {ArticleFallback, VideoFallback, GenericFallback}

\* the provider could not be reached: one request, the generic fallback
C26_Witness ==
    \E p \in Procs :
        /\ Generated(p) /\ ProviderCalls(p) = 1
        /\ Last(calls[p]).reply = NetError
        /\ post[p] = GenericFallback

Applications == {calls[Caller][i] : i \in {j \in DOMAIN calls[Caller] :
                                             calls[Caller][j].kind = "format"}}
Count(t, tok) == Cardinality({i \in DOMAIN t : t[i] = tok})
PrefixEmojis ==
    <<":robot:", ":computer:", ":bulb:", ":chart:", ":microscope:", ":globe:", ":cap:">>
IsPrefixEmoji(tok) == \E k \in DOMAIN PrefixEmojis : PrefixEmojis[k] = tok
\* the keyword classes in the order AI, tech, innovation, data, research,
\* open source, student / education
Matches(k, t) ==
    CASE k = 1 -> Has(t, "AI") \/ HasLower(t, "artificial intelligence")
      [] k = 2 -> HasLower(t, "tech")
      [] k = 3 -> HasLower(t, "innovation")
      [] k = 4 -> HasLower(t, "data")
      [] k = 5 -> HasLower(t, "research")
      [] k = 6 -> HasLower(t, "open source")
      [] k = 7 -> HasLower(t, "student") \/ HasLower(t, "education")
FirstMatch(t) ==
    IF \E k \in DOMAIN PrefixEmojis : Matches(k, t)
    THEN CHOOSE k \in DOMAIN PrefixEmojis :
             Matches(k, t) /\ \A j \in 1..(k - 1) : ~Matches(j, t)
    ELSE 0

\* C28: _format_post puts exactly one emoji in front of the text, that of the
\* first keyword class, in the order AI, tech, innovation, data, research, open
\* source, student / education, that the text (without "**") matches; a text
\* matching several classes gets the emoji of the first one only, and a text
\* matching none gets no prefix.
C28_OnePrefixByPriority ==
    \A c \in Applications :
        LET t == StripBold(c.data)
            out == c.reply
            k == FirstMatch(t)
        IN IF k = 0
           THEN out # <<>> /\ (IsPrefixEmoji(out[1]) => (t # <<>> /\ t[1] = out[1]))
           ELSE /\ Len(out) >= 3
                /\ out[1] = PrefixEmojis[k] /\ out[2] = " "
                /\ IsPrefixEmoji(out[3]) => (t # <<>> /\ t[1] = out[3])

\* a text naming data, technology and AI, in that order, gets the robot only
C28_Witness ==
    \E c \in Applications :
        /\ c.data = <<"data", "technology", "AI">>
        /\ c.reply[1] = ":robot:" /\ c.reply[3] = "data"

\* the text before the reference line _format_post appended, if it appended one
Processed(t, out, url) ==
    IF HasMarker(t) THEN out
    ELSE SubSeq(out, 1, Len(out) - Len(<<"Read more:", " ">> \o Str(url)))

\* C29: one punctuation tier is applied, chosen by enthusiasm: above 0.7 every
\* "." becomes "! sparkles" and every "?" becomes "? thinking"; above 0.4 and
\* up to 0.7 every "." becomes "! clap" and every "?" "? thought"; at 0.4 or
\* below nothing changes.  Above 0.7 no "." of the text is left in the
\* processed text.
C29_OnePunctuationTier ==
    \A c \in Applications :
        LET t == StripBold(c.data)
            b == Processed(t, c.reply, last_content_url)
            Same(tok) == Count(b, tok) = Count(t, tok)
            Turned(from, into, mark) ==
                /\ Count(b, from) = (IF from = "." THEN 0 ELSE Count(t, from))
                /\ Count(b, mark) = Count(t, mark) + Count(t, from)
                /\ from # into => Count(b, into) = Count(t, into) + Count(t, from)
        IN IF enthusiasm > 7
           THEN /\ Turned(".", "!", ":sparkles:") /\ Turned("?", "?", ":thinking:")
                /\ Same(":clap:") /\ Same(":thought:")
           ELSE IF enthusiasm > 4
           THEN /\ Turned(".", "!", ":clap:") /\ Turned("?", "?", ":thought:")
                /\ Same(":sparkles:") /\ Same(":thinking:")
           ELSE \A tok \in {".", "?", "!", ":sparkles:", ":thinking:", ":clap:", ":thought:"} :
                    Same(tok)

\* enthusiasm 0.9, a text with two periods: none is left, two sparkles
C29_Witness ==
    \E c \in Applications :
        /\ enthusiasm = 9 /\ Count(c.data, ".") = 2
        /\ Count(Processed(StripBold(c.data), c.reply, last_content_url), ".") = 0
        /\ Count(c.reply, ":sparkles:") = 2

\* C30: _format_post applied to its own output appends no second reference
\* line: the output of the second application has as many "Read more:" as
\* the output of the first, for every text and every content URL.
C30_ReferenceOnce ==
    (pc[Caller] = "done" /\ op[Caller] = "format")
    => Count(calls[Caller][2].reply, "Read more:") = Count(calls[Caller][1].reply, "Read more:")

\* the first application appended the line, the second left it alone
C30_Witness ==
    /\ pc[Caller] = "done" /\ op[Caller] = "format"
    /\ ~HasMarker(calls[Caller][1].data) /\ Truthy(last_content_url)
    /\ Count(calls[Caller][1].reply, "Read more:") = 1
    /\ Count(calls[Caller][2].reply, "Read more:") = 1

\* ------------------------------------------------- the emoji of a request

\* C31: for a request that names no content URL and whose description mentions
\* AI, under enthusiasm 0.8, the text generate_post returns begins with the
\* robot emoji and a space, whatever the provider answered.
C31_AiDescriptionGetsRobot ==
    \A p \in Procs :
        ( /\ Generated(p)
          /\ ~Truthy(arg[p].content_url)
          /\ Has(arg[p].description, "AI")
          /\ enthusiasm = DefaultEnthusiasm )
        => /\ Len(ret[p].post) >= 2
           /\ ret[p].post[1] = ":robot:"
           /\ ret[p].post[2] = " "

\* ------------------------------------------- the token state in memory

\* C35: an exchange that fails leaves the token state in memory as it was when
\* the exchange started: the held access token and the held user id are the
\* same as before the call, whichever step failed.
C35_FailedExchangeKeepsMemory ==
    \A p \in Procs :
        (op[p] = "exchange" /\ pc[p] = "done" /\ ret[p].kind = "raise")
        => /\ access_token = before[p].access_token
           /\ user_id = before[p].user_id

\* C36: a validation that returns False leaves the held user id as it was
\* when the validation started, whatever made it fail.
C36_FailedValidateKeepsUserId ==
    \A p \in Procs :
        (op[p] = "validate" /\ ReturnedFalse(p)) => user_id = before[p].user_id

\* ------------------------------------------- the token record, interleaved

\* the user ids the identity endpoint has returned for access token t, in the
\* calls log cs
IdentityOf(cs, t) ==
    {cs[p][i].reply.body.sub : <<p, i>> \in
        {<<p, i>> \in Procs \X (1..2) :
            /\ i \in DOMAIN cs[p]
            /\ cs[p][i].kind = "userinfo" /\ cs[p][i].bearer = t
            /\ Succeeded(cs[p][i])}}

\* C37: whichever way exchanges, validations and publish calls interleave at
\* their network calls, a token record written to the file holds an access
\* token that is not empty, together with a user id the identity endpoint
\* returned for that very access token.
C37_RecordPairsTokenWithItsIdentity ==
    [][(file' # file /\ file'.form = "json")
       => /\ file'.access_token # None
          /\ file'.user_id \in IdentityOf(calls', file'.access_token)]_vars

\* ------------------------------------------------------- handler claims

\* C33: when the validation returns False, the post-to-linkedin handler
\* answers 401 "Not authenticated with LinkedIn", not the 500 of a failed
\* publish, and create_post is not called.
C33_Reports401 ==
    \A p \in Procs :
        ( /\ handler[p].name = "post_to_linkedin"
          /\ handler[p].stage = "responded"
          /\ handler[p].authenticated = "False" )
        => /\ handler[p].status = 401
           /\ handler[p].detail = "Not authenticated with LinkedIn"

\* C34: a generation request with neither a description nor a content URL
\* is answered 400 "Either description or content_url must be provided": no
\* post text is returned for it.
C34_Rejects400 ==
    \A p \in Procs :
        ( /\ handler[p].name = "generate_post"
          /\ handler[p].stage = "responded"
          /\ ~Truthy(handler[p].request.description)
          /\ ~Truthy(handler[p].request.content_url) )
        => /\ handler[p].status = 400
           /\ handler[p].detail = "Either description or content_url must be provided"
           /\ handler[p].post = NoneT

\* --------------------------------------------- generation, interleaved

\* C38: when two generate_post calls on one instance interleave at their
\* awaited calls, the reference line appended to a result names the content
\* URL of its own request; the result of a request without a content URL
\* never ends with the URL of another request.
C38_OwnReference ==
    \A p \in Procs :
        (Generated(p) /\ post[p] # NoneT /\ ~HasMarker(post[p]))
        => IF Truthy(arg[p].content_url)
           THEN EndsWith(ret[p].post, <<"Read more:", " ">> \o arg[p].content_url)
           ELSE \A u \in Urls : ~EndsWith(ret[p].post, <<"Read more:", " ">> \o u)

\* ------------------------------------------------------------ termination
Running(p) == pc[p] \notin {"idle", "done"}

\* C32: an operation waits for each outbound call before it issues the next
\* one or returns (generate_post has returned only after its provider call
\* was answered), and, every outbound call being answered in the end, every
\* operation that was started returns to its caller.
C32_EveryOperationReturns ==
    /\ [](\A p \in Procs :
            /\ \A i \in DOMAIN calls[p] :
                  (i < Len(calls[p]) \/ ~Running(p)) => Answered(calls[p][i])
            /\ Generated(p) => ProviderCalls(p) = 1)
    /\ \A p \in Procs : Running(p) ~> (pc[p] = "done")

\* a create_post call with an image has returned True after its five calls
\* were answered one after the other
C32_Witness ==
    \E p \in Procs :
        /\ pc[p] = "done" /\ op[p] = "publish" /\ Len(calls[p]) = 5
        /\ \A i \in DOMAIN calls[p] : Answered(calls[p][i])
        /\ ret[p].value = "True"

====
